---- MODULE Spec2Model ----
(***************************************************************************)
(* Poco::AtomicCounter (include/Poco/AtomicCounter.h).                     *)
(*                                                                         *)
(* One shared counter instance, used by several threads.  The header has   *)
(* three implementations selected by the preprocessor: Windows             *)
(* (InterlockedIncrement/Decrement on a volatile LONG), Mac OS X           *)
(* (OSAtomicIncrement32/Decrement32 on an int32_t) and the generic one     *)
(* (a volatile int guarded by a FastMutex).  Every statement that touches  *)
(* _counter or the mutex is one step of the model; "return result" uses    *)
(* only the thread's own local and is taken together with the last such    *)
(* statement of the operation.                                             *)
(*                                                                         *)
(* initial, hist, start and seen are history variables: they record what   *)
(* the calls did and are never read by the operations.                     *)
(***************************************************************************)
EXTENDS Integers, Sequences, FiniteSets

VARIABLES
    strategy,   \* which #if branch of the header was compiled
    counter,    \* _counter (Windows, Mac OS X) or _counter.value (FastMutex)
    mutex,      \* _counter.mutex: the set of threads that hold it
    pc,         \* where each thread is inside the operation it called
    op,         \* the operation each thread is executing
    result,     \* each thread's local variable "result"
    initial,    \* the value the counter was constructed with
    hist,       \* the completed calls, in the order they returned
    start,      \* for the call in progress of a thread: Len(hist) when it was called
    seen,       \* for a thread inside operator !: zero/nonzero values the counter had meanwhile
    recording,  \* whether the history is kept (and the number of calls bounded)
    copy        \* a second AtomicCounter instance, copied from this one

vars == <<strategy, counter, mutex, pc, op, result, initial, hist, start, seen, recording,
          copy>>

(* ---- bounds ---- *)
NumThreads == 2
MaxCalls == 2
Width == 3

Threads == 1..NumThreads

MinInt == -(2^(Width - 1))
MaxInt == 2^(Width - 1) - 1
ValueType == MinInt..MaxInt

\* mutant: arithmetic that stops at the ends of the range
Wrap_Saturates(v) == IF v > MaxInt THEN MaxInt ELSE IF v < MinInt THEN MinInt ELSE v

\* two's complement wrap-around of the fixed-width ValueType
Wrap(v) == ((v - MinInt) % (2^Width)) + MinInt

\* the values a counter is constructed with: the small ones and the ends of the range
InitialValues == (0..MaxCalls) \cup {MinInt, -1, MaxInt}

Strategies == {"Windows", "MacOSX", "FastMutex"}
Native == {"Windows", "MacOSX"}

Ops == {"conv", "value", "preinc", "postinc", "predec", "postdec", "not"}
Prefix == {"preinc", "predec"}
Postfix == {"postinc", "postdec"}
Increments == {"preinc", "postinc"}
Mutators == Prefix \cup Postfix

\* a C++ bool result carried in the integer result
BoolVal(b) == IF b THEN 1 ELSE 0

(* ---- the platform primitives: atomic read-modify-write, giving the new value ---- *)
InterlockedIncrement(v) == Wrap(v + 1)
\* mutant: the decrement written with the increment's body
InterlockedDecrement_Increments(v) == Wrap(v + 1)

InterlockedDecrement(v) == Wrap(v - 1)
OSAtomicIncrement32(v) == Wrap(v + 1)
OSAtomicDecrement32(v) == Wrap(v - 1)

AtomicStep(s, o, v) ==
    IF s = "Windows"
    THEN (IF o \in Increments THEN InterlockedIncrement(v) ELSE InterlockedDecrement(v))
    ELSE (IF o \in Increments THEN OSAtomicIncrement32(v) ELSE OSAtomicDecrement32(v))

(* ---- history bookkeeping ---- *)
ZeroClass(v) == IF v = 0 THEN "zero" ELSE "nonzero"

\* the counter takes the value v while some threads are inside operator !
Observe(v) ==
    [u \in Threads |-> IF op[u] = "not" THEN seen[u] \cup {ZeroClass(v)} ELSE seen[u]]

InCall == {u \in Threads : pc[u] # "idle"}
Invoked == Len(hist) + Cardinality(InCall)

\* thread t returns r from the operation it is in
Returns(t, r) ==
    /\ hist' = IF recording
               THEN Append(hist, [thr |-> t, op |-> op[t], val |-> r,
                                  start |-> start[t], seen |-> seen[t]])
               ELSE hist
    /\ pc' = [pc EXCEPT ![t] = "idle"]
    /\ op' = [op EXCEPT ![t] = "none"]
    /\ result' = [result EXCEPT ![t] = 0]
    /\ start' = [start EXCEPT ![t] = 0]

\* the second instance before it is constructed
NoCopy == [made |-> FALSE, value |-> 0]

Init ==
    /\ strategy \in Strategies
    /\ initial \in InitialValues
    /\ counter = initial
    /\ mutex = {}
    /\ pc = [t \in Threads |-> "idle"]
    /\ op = [t \in Threads |-> "none"]
    /\ result = [t \in Threads |-> 0]
    /\ hist = << >>
    /\ start = [t \in Threads |-> 0]
    /\ seen = [t \in Threads |-> {}]
    /\ recording = TRUE
    /\ copy = NoCopy

\* a thread calls one of the public operations
Call(t, o) ==
    /\ pc[t] = "idle"
    /\ recording => Invoked < MaxCalls
    /\ op' = [op EXCEPT ![t] = o]
    /\ pc' = [pc EXCEPT ![t] =
                IF strategy = "FastMutex" THEN "lock"
                ELSE IF o \in Prefix THEN "atomic" ELSE "read"]
    /\ start' = [start EXCEPT ![t] = IF recording THEN Len(hist) ELSE 0]
    /\ seen' = [seen EXCEPT ![t] = IF o = "not" THEN {ZeroClass(counter)} ELSE {}]
    /\ UNCHANGED <<strategy, counter, mutex, result, initial, hist, recording, copy>>

(* ---- Windows and Mac OS X ---- *)

\* return _counter;   return _counter == 0;   ValueType result(_counter);
NativeRead(t) ==
    /\ strategy \in Native
    /\ pc[t] = "read"
    /\ IF op[t] \in Postfix
       THEN /\ result' = [result EXCEPT ![t] = counter]
            /\ pc' = [pc EXCEPT ![t] = "atomic"]
            /\ UNCHANGED <<op, hist, start, seen>>
       ELSE /\ Returns(t, IF op[t] = "not" THEN BoolVal(counter = 0) ELSE counter)
            /\ seen' = [seen EXCEPT ![t] = {}]
    /\ UNCHANGED <<strategy, counter, mutex, initial, recording, copy>>

\* mutant: the postfix forms return the value after the update
NativeAtomic_ReturnsNew(t) ==
    /\ strategy \in Native
    /\ pc[t] = "atomic"
    /\ counter' = AtomicStep(strategy, op[t], counter)
    /\ Returns(t, counter')
    /\ seen' = [Observe(counter') EXCEPT ![t] = {}]
    /\ UNCHANGED <<strategy, mutex, initial, recording, copy>>

\* mutant: the postfix update done as a compare-and-swap that starts over when the
\* counter is no longer what was read
NativeAtomic_CasLoop(t) ==
    /\ strategy \in Native
    /\ pc[t] = "atomic"
    /\ IF op[t] \in Postfix /\ counter # result[t]
       THEN /\ pc' = [pc EXCEPT ![t] = "read"]
            /\ UNCHANGED <<counter, op, result, hist, start, seen>>
       ELSE /\ counter' = AtomicStep(strategy, op[t], counter)
            /\ Returns(t, IF op[t] \in Prefix THEN counter' ELSE result[t])
            /\ seen' = [Observe(counter') EXCEPT ![t] = {}]
    /\ UNCHANGED <<strategy, mutex, initial, recording, copy>>

\* mutant: the postfix update stores the value read earlier plus or minus one
NativeAtomic_FromStaleRead(t) ==
    /\ strategy \in Native
    /\ pc[t] = "atomic"
    /\ counter' = IF op[t] \in Postfix
                  THEN AtomicStep(strategy, op[t], result[t])
                  ELSE AtomicStep(strategy, op[t], counter)
    /\ Returns(t, IF op[t] \in Prefix THEN counter' ELSE result[t])
    /\ seen' = [Observe(counter') EXCEPT ![t] = {}]
    /\ UNCHANGED <<strategy, mutex, initial, recording, copy>>

\* return InterlockedIncrement(&_counter);   InterlockedIncrement(&_counter); return result;
NativeAtomic(t) ==
    /\ strategy \in Native
    /\ pc[t] = "atomic"
    /\ counter' = AtomicStep(strategy, op[t], counter)
    /\ Returns(t, IF op[t] \in Prefix THEN counter' ELSE result[t])
    /\ seen' = [Observe(counter') EXCEPT ![t] = {}]
    /\ UNCHANGED <<strategy, mutex, initial, recording, copy>>

(* ---- generic implementation based on FastMutex ---- *)

\* mutant: a lock that excludes nobody
ScopedLock_NoExclusion(t) ==
    /\ strategy = "FastMutex"
    /\ pc[t] = "lock"
    /\ mutex' = mutex \cup {t}
    /\ pc' = [pc EXCEPT ![t] = "load"]
    /\ UNCHANGED <<strategy, counter, op, result, initial, hist, start, seen, recording, copy>>

\* FastMutex::ScopedLock lock(_counter.mutex);
ScopedLock(t) ==
    /\ strategy = "FastMutex"
    /\ pc[t] = "lock"
    /\ mutex = {}
    /\ mutex' = {t}
    /\ pc' = [pc EXCEPT ![t] = "load"]
    /\ UNCHANGED <<strategy, counter, op, result, initial, hist, start, seen, recording, copy>>

\* mutant: operator ! with the comparison inverted
LockedLoad_NotInverted(t) ==
    /\ strategy = "FastMutex"
    /\ pc[t] = "load"
    /\ result' = [result EXCEPT ![t] =
                    IF op[t] = "not" THEN BoolVal(counter # 0) ELSE counter]
    /\ pc' = [pc EXCEPT ![t] = IF op[t] \in Mutators THEN "store" ELSE "unlock"]
    /\ UNCHANGED <<strategy, counter, mutex, op, initial, hist, start, seen, recording, copy>>

\* mutant: the read-only operations written with the body of a decrement
LockedLoad_AlwaysStores(t) ==
    /\ strategy = "FastMutex"
    /\ pc[t] = "load"
    /\ result' = [result EXCEPT ![t] =
                    IF op[t] = "not" THEN BoolVal(counter = 0) ELSE counter]
    /\ pc' = [pc EXCEPT ![t] = "store"]
    /\ UNCHANGED <<strategy, counter, mutex, op, initial, hist, start, seen, recording, copy>>

\* the read of the volatile _counter.value inside the guarded block
LockedLoad(t) ==
    /\ strategy = "FastMutex"
    /\ pc[t] = "load"
    /\ result' = [result EXCEPT ![t] =
                    IF op[t] = "not" THEN BoolVal(counter = 0) ELSE counter]
    /\ pc' = [pc EXCEPT ![t] = IF op[t] \in Mutators THEN "store" ELSE "unlock"]
    /\ UNCHANGED <<strategy, counter, mutex, op, initial, hist, start, seen, recording, copy>>

\* mutant: the prefix forms return the value before the update
LockedStore_ReturnsPrior(t) ==
    /\ strategy = "FastMutex"
    /\ pc[t] = "store"
    /\ counter' = Wrap(IF op[t] \in Increments THEN result[t] + 1 ELSE result[t] - 1)
    /\ UNCHANGED result
    /\ pc' = [pc EXCEPT ![t] = "unlock"]
    /\ seen' = Observe(counter')
    /\ UNCHANGED <<strategy, mutex, op, initial, hist, start, recording, copy>>

\* mutant: the integer slot is shared by all instances (a static member)
LockedStore_SharedSlot(t) ==
    /\ strategy = "FastMutex"
    /\ pc[t] = "store"
    /\ counter' = Wrap(IF op[t] \in Increments THEN result[t] + 1 ELSE result[t] - 1)
    /\ copy' = IF copy.made THEN [copy EXCEPT !.value = counter'] ELSE copy
    /\ result' = [result EXCEPT ![t] = IF op[t] \in Prefix THEN counter' ELSE @]
    /\ pc' = [pc EXCEPT ![t] = "unlock"]
    /\ seen' = Observe(counter')
    /\ UNCHANGED <<strategy, mutex, op, initial, hist, start, recording>>

\* the write of ++ / -- to the volatile _counter.value, and the value of the expression
\* (load, add, store of a volatile int: the two's complement result, as for the
\* Interlocked and OSAtomic primitives; the language leaves signed overflow undefined)
LockedStore(t) ==
    /\ strategy = "FastMutex"
    /\ pc[t] = "store"
    /\ counter' = Wrap(IF op[t] \in Increments THEN result[t] + 1 ELSE result[t] - 1)
    /\ result' = [result EXCEPT ![t] = IF op[t] \in Prefix THEN counter' ELSE @]
    /\ pc' = [pc EXCEPT ![t] = "unlock"]
    /\ seen' = Observe(counter')
    /\ UNCHANGED <<strategy, mutex, op, initial, hist, start, recording, copy>>

\* mutant: the operation returns with the mutex still held
ScopedUnlock_NoRelease(t) ==
    /\ strategy = "FastMutex"
    /\ pc[t] = "unlock"
    /\ UNCHANGED mutex
    /\ Returns(t, result[t])
    /\ seen' = [seen EXCEPT ![t] = {}]
    /\ UNCHANGED <<strategy, counter, initial, recording, copy>>

\* the closing brace of the guarded block (~ScopedLock), then return result;
ScopedUnlock(t) ==
    /\ strategy = "FastMutex"
    /\ pc[t] = "unlock"
    /\ mutex' = mutex \ {t}
    /\ Returns(t, result[t])
    /\ seen' = [seen EXCEPT ![t] = {}]
    /\ UNCHANGED <<strategy, counter, initial, recording, copy>>

Next ==
    \/ \E t \in Threads, o \in Ops : Call(t, o)
    \/ \E t \in Threads : NativeRead(t)
    \/ \E t \in Threads : NativeAtomic(t)
    \/ \E t \in Threads : ScopedLock(t)
    \/ \E t \in Threads : LockedLoad(t)
    \/ \E t \in Threads : LockedStore(t)
    \/ \E t \in Threads : ScopedUnlock(t)

Spec == Init /\ [][Next]_vars

TypeOK ==
    /\ strategy \in Strategies
    /\ counter \in ValueType
    /\ mutex \subseteq Threads
    /\ \A t \in Threads : result[t] \in ValueType
    /\ \A t \in Threads : op[t] \in Ops \cup {"none"}
    /\ \A t \in Threads : (pc[t] = "idle") <=> (op[t] = "none")

(***************************************************************************)
(* The histories of the calls                                              *)
(***************************************************************************)
AllReturned == InCall = {}

Done == 1..Len(hist)
DoneOf(o) == {i \in Done : hist[i].op = o}
OnlyCalls(o) == \A i \in Done : hist[i].op = o
ReturnedValues == {hist[i].val : i \in Done}

\* two completed calls overlapped: the one that returned later was called before
\* the other returned
Overlapped == \E i, k \in Done : i < k /\ hist[k].start < i /\ hist[i].thr # hist[k].thr

\* C1: N concurrent increment() calls on a counter that starts at 0 leave the
\* counter at N and return exactly the values 1..N, each once, in every strategy.
C1_IncrementNoLostUpdate ==
    (initial = 0 /\ AllReturned /\ OnlyCalls("preinc"))
        => /\ counter = Len(hist)
           /\ ReturnedValues = 1..Len(hist)

C1_Witness ==
    /\ initial = 0 /\ AllReturned /\ OnlyCalls("preinc")
    /\ Len(hist) = MaxCalls /\ Overlapped
    /\ counter = MaxCalls

\* C2 (as claimed): N concurrent incrementPost() calls on a counter that starts at 0
\* return exactly the values 0..N-1, each once, in every strategy.
C2_PostIncrementReturnsPrior ==
    (initial = 0 /\ AllReturned /\ OnlyCalls("postinc"))
        => ReturnedValues = 0..(Len(hist) - 1)

\* C3 (as claimed): N concurrent decrementPost() calls on a counter that starts at N
\* return exactly the values N, N-1, ..., 1, each once, in every strategy.
C3_PostDecrementReturnsPrior ==
    (AllReturned /\ initial = Len(hist) /\ OnlyCalls("postdec"))
        => ReturnedValues = 1..Len(hist)

\* C4: N concurrent decrement() calls on a counter that starts at N leave the counter
\* at 0 and return exactly the values N-1, ..., 0, each once: exactly one caller gets 0.
C4_DecrementLastRelease ==
    (AllReturned /\ initial = Len(hist) /\ OnlyCalls("predec"))
        => /\ counter = 0
           /\ ReturnedValues = 0..(Len(hist) - 1)
           /\ Cardinality({i \in Done : hist[i].val = 0}) = IF Len(hist) = 0 THEN 0 ELSE 1

C4_Witness ==
    /\ initial = MaxCalls /\ AllReturned /\ OnlyCalls("predec")
    /\ Len(hist) = MaxCalls /\ Overlapped
    /\ counter = 0

(***************************************************************************)
(* The sequential counter of the class documentation, and linearizability  *)
(***************************************************************************)
\* what one operation does to a counter holding v when nothing else runs:
\* the value it leaves and the value it returns
SeqStep(v, o) ==
    CASE o = "preinc"  -> [val |-> Wrap(v + 1), ret |-> Wrap(v + 1)]
      [] o = "postinc" -> [val |-> Wrap(v + 1), ret |-> v]
      [] o = "predec"  -> [val |-> Wrap(v - 1), ret |-> Wrap(v - 1)]
      [] o = "postdec" -> [val |-> Wrap(v - 1), ret |-> v]
      [] o = "not"     -> [val |-> v, ret |-> BoolVal(v = 0)]
      [] OTHER         -> [val |-> v, ret |-> v]

\* a call is named by its place in hist when it has returned, and by
\* Len(hist) + its thread while it is in progress
PendingCalls == {Len(hist) + t : t \in InCall}
IsDone(c) == c <= Len(hist)
CallOp(c) == IF IsDone(c) THEN hist[c].op ELSE op[c - Len(hist)]
CallStart(c) == IF IsDone(c) THEN hist[c].start ELSE start[c - Len(hist)]
CallThread(c) == IF IsDone(c) THEN hist[c].thr ELSE c - Len(hist)

\* call a returned before call b was made (real-time order)
Precedes(a, b) == IsDone(a) /\ a <= CallStart(b)

\* the orders in which the calls of C can be arranged
Orders(C) ==
    {s \in [1..Cardinality(C) -> C] : \A i, k \in 1..Cardinality(C) : i # k => s[i] # s[k]}

\* running the calls of s one after the other from value v gives every returned
\* call the value it returned and leaves the counter as it is now
RECURSIVE Legal(_, _, _)
Legal(s, n, v) ==
    IF n > Len(s) THEN v = counter
    ELSE LET r == SeqStep(v, CallOp(s[n])) IN
         /\ IsDone(s[n]) => hist[s[n]].val = r.ret
         /\ Legal(s, n + 1, r.val)

\* C5 (as claimed): every history is linearizable: the returned calls, and those of
\* the calls in progress that have taken effect, can be put in one order that respects
\* real time and reproduces every returned value and the counter's current value.
C5_Linearizable ==
    \E P \in SUBSET PendingCalls :
        \E s \in Orders(Done \cup P) :
            /\ \A i, k \in 1..Len(s) : i < k => ~Precedes(s[k], s[i])
            /\ Legal(s, 1, initial)

\* the outcome (every returned value and the final value) is that of running the
\* calls one at a time in some order that keeps each thread's own order
SequentialOutcome ==
    \E s \in Orders(Done) :
        /\ \A i, k \in 1..Len(s) :
              (i < k /\ hist[s[i]].thr = hist[s[k]].thr) => s[i] < s[k]
        /\ Legal(s, 1, initial)

\* the outcomes of the lock-guarded strategy are the sequential ones (a check of the
\* model: it is what C6 compares the native strategies with)
FastMutexOutcomes == (strategy = "FastMutex" /\ AllReturned) => SequentialOutcome

\* C6 (as claimed): a caller cannot tell the strategies apart: every outcome of the
\* same calls under a native-atomic strategy is an outcome under the lock-guarded
\* strategy, that is, a sequential one.
C6_SameOutcomesAsLockGuarded == (strategy \in Native /\ AllReturned) => SequentialOutcome

\* the lock-guarded strategy is linearizable (a check of the model, used by C5 and C6)
FastMutexLinearizable == strategy = "FastMutex" => C5_Linearizable

(***************************************************************************)
(* One thread alone                                                        *)
(***************************************************************************)
SingleThreaded == Cardinality({hist[i].thr : i \in Done} \cup InCall) <= 1

\* C8: with one thread, on a counter holding v, incrementPost() returns v and leaves
\* v+1, and an increment() right after it returns v+2 and leaves v+2 (in the
\* counter's fixed-width arithmetic), in every strategy.
C8_PostThenPreIncrement ==
    (AllReturned /\ Len(hist) >= 1 /\ hist[1].op = "postinc" /\ SingleThreaded)
        => /\ hist[1].val = initial
           /\ Len(hist) = 1 => counter = Wrap(initial + 1)
           /\ (Len(hist) >= 2 /\ hist[2].op = "preinc")
                 => /\ hist[2].val = Wrap(initial + 2)
                    /\ Len(hist) = 2 => counter = Wrap(initial + 2)

C8_Witness ==
    /\ SingleThreaded /\ AllReturned /\ Len(hist) = 2
    /\ hist[1].op = "postinc" /\ hist[2].op = "preinc"
    /\ initial = 1 /\ hist[1].val = 1 /\ hist[2].val = 3 /\ counter = 3

\* C9: with one thread, on a counter holding v, decrementPost() returns v and leaves
\* v-1, and a decrement() right after it returns v-2 and leaves v-2 (in the
\* counter's fixed-width arithmetic), in every strategy.
C9_PostThenPreDecrement ==
    (AllReturned /\ Len(hist) >= 1 /\ hist[1].op = "postdec" /\ SingleThreaded)
        => /\ hist[1].val = initial
           /\ Len(hist) = 1 => counter = Wrap(initial - 1)
           /\ (Len(hist) >= 2 /\ hist[2].op = "predec")
                 => /\ hist[2].val = Wrap(initial - 2)
                    /\ Len(hist) = 2 => counter = Wrap(initial - 2)

C9_Witness ==
    /\ SingleThreaded /\ AllReturned /\ Len(hist) = 2
    /\ hist[1].op = "postdec" /\ hist[2].op = "predec"
    /\ initial = 2 /\ hist[1].val = 2 /\ hist[2].val = 0 /\ counter = 0

(***************************************************************************)
(* operator !                                                              *)
(***************************************************************************)
\* C10: operator ! returns true only if the counter was 0, and false only if it was
\* not 0, at some instant between the call and its return; with no other thread
\* running it returns true exactly when the counter holds 0.
C10_IsZero ==
    /\ \A i \in DoneOf("not") :
          /\ hist[i].val \in {0, 1}
          /\ hist[i].val = 1 => "zero" \in hist[i].seen
          /\ hist[i].val = 0 => "nonzero" \in hist[i].seen
    /\ (AllReturned /\ Len(hist) >= 1 /\ hist[Len(hist)].op = "not"
            /\ hist[Len(hist)].seen = {ZeroClass(counter)})
          => (hist[Len(hist)].val = 1 <=> counter = 0)

C10_Witness ==
    /\ AllReturned /\ Len(hist) = 2 /\ initial = 1
    /\ hist[1].op \in {"predec", "postdec"}
    /\ hist[2].op = "not" /\ hist[2].start = 1 /\ hist[2].val = 1
    /\ counter = 0

(***************************************************************************)
(* Progress in the lock-guarded strategy: threads call operations for ever *)
(***************************************************************************)
\* the FastMutex build, a default-constructed counter and no bound on the number of
\* calls (no history is kept; the counter runs through all its values by wrapping)
LiveInit ==
    /\ strategy = "FastMutex"
    /\ initial = 0
    /\ counter = initial
    /\ mutex = {}
    /\ pc = [t \in Threads |-> "idle"]
    /\ op = [t \in Threads |-> "none"]
    /\ result = [t \in Threads |-> 0]
    /\ hist = << >>
    /\ start = [t \in Threads |-> 0]
    /\ seen = [t \in Threads |-> {}]
    /\ recording = FALSE
    /\ copy = NoCopy

LiveNext ==
    \/ \E t \in Threads, o \in Ops : Call(t, o)
    \/ \E t \in Threads : ScopedLock(t)
    \/ \E t \in Threads : LockedLoad(t)
    \/ \E t \in Threads : LockedStore(t)
    \/ \E t \in Threads : ScopedUnlock(t)

\* a thread inside an operation keeps running: whenever its next statement can be
\* executed for good, it is executed.  Nothing says a thread calls again, and
\* FastMutex promises no order among the threads waiting for it.
Running(t) == ScopedLock(t) \/ LockedLoad(t) \/ LockedStore(t) \/ ScopedUnlock(t)

LiveSpec == LiveInit /\ [][LiveNext]_vars /\ \A t \in Threads : WF_vars(Running(t))

\* C7 (as claimed): every call that has started eventually returns, given only that
\* the threads keep taking steps.
C7_EveryCallReturns == \A t \in Threads : (pc[t] # "idle") ~> (pc[t] = "idle")

\* C7 (amended): every call that has started eventually returns provided the mutex is
\* starvation-free: a thread that finds the mutex free again and again gets it.
C7_EveryCallReturnsIfMutexFair ==
    (\A t \in Threads : SF_vars(ScopedLock(t)))
        => \A t \in Threads : (pc[t] # "idle") ~> (pc[t] = "idle")

\* a thread waits for the mutex while another thread holds it
C7_Witness ==
    \E t, u \in Threads : t # u /\ pc[t] = "lock" /\ mutex = {u} /\ pc[u] = "store"

(***************************************************************************)
(* A second instance: copy construction and assignment                     *)
(*                                                                         *)
(* The constructors and the assignment operators are declared in the       *)
(* header and defined in AtomicCounter.cpp; they are modelled from their   *)
(* documented contract: each takes one consistent reading of the source    *)
(* (under the FastMutex strategy the source's value() needs its mutex) and *)
(* stores it in the target's own _counter.                                 *)
(***************************************************************************)
\* AtomicCounter b(a);
CopyConstruct ==
    /\ ~copy.made
    /\ strategy = "FastMutex" => mutex = {}
    /\ copy' = [made |-> TRUE, value |-> counter]
    /\ UNCHANGED <<strategy, counter, mutex, pc, op, result, initial, hist, start, seen,
                   recording>>

\* b = a;
AssignToCopy ==
    /\ copy.made
    /\ strategy = "FastMutex" => mutex = {}
    /\ copy' = [copy EXCEPT !.value = counter]
    /\ UNCHANGED <<strategy, counter, mutex, pc, op, result, initial, hist, start, seen,
                   recording>>

\* a = b;
AssignFromCopy ==
    /\ copy.made
    /\ strategy = "FastMutex" => mutex = {}
    /\ counter' = copy.value
    /\ seen' = Observe(counter')
    /\ UNCHANGED <<strategy, mutex, pc, op, result, initial, hist, start, recording, copy>>

\* a = value;
AssignValue(v) ==
    /\ strategy = "FastMutex" => mutex = {}
    /\ counter' = v
    /\ seen' = Observe(counter')
    /\ UNCHANGED <<strategy, mutex, pc, op, result, initial, hist, start, recording, copy>>

\* a default-constructed counter on which the threads call increment (++a) and
\* decrement (--a) without a bound on the number of calls (no history is kept), which is
\* assigned to, and a second instance copied from it
CopyInit ==
    /\ strategy \in Strategies
    /\ initial = 0
    /\ counter = initial
    /\ mutex = {}
    /\ pc = [t \in Threads |-> "idle"]
    /\ op = [t \in Threads |-> "none"]
    /\ result = [t \in Threads |-> 0]
    /\ hist = << >>
    /\ start = [t \in Threads |-> 0]
    /\ seen = [t \in Threads |-> {}]
    /\ recording = FALSE
    /\ copy = NoCopy

CopyNext ==
    \/ \E t \in Threads, o \in Prefix : Call(t, o)
    \/ \E t \in Threads : NativeAtomic(t)
    \/ \E t \in Threads : ScopedLock(t)
    \/ \E t \in Threads : LockedLoad(t)
    \/ \E t \in Threads : LockedStore(t)
    \/ \E t \in Threads : ScopedUnlock(t)
    \/ CopyConstruct
    \/ AssignToCopy
    \/ AssignFromCopy
    \/ \E v \in InitialValues : AssignValue(v)

CopySpec == CopyInit /\ [][CopyNext]_vars

\* C11: copying is a snapshot and the two instances share no state: a step that
\* changes the copy gives it the value the source holds at that moment and leaves the
\* source (its value and its mutex) alone, and a step that changes the source (an
\* increment, a decrement, an assignment) leaves the copy as it is.
C11_CopyIsSnapshot ==
    [][ /\ (copy' # copy) =>
              (copy'.made /\ copy'.value = counter /\ counter' = counter /\ mutex' = mutex)
        /\ (counter' # counter \/ mutex' # mutex) => copy' = copy ]_vars

\* the copy still holds the value it was given while the source has moved on and a
\* thread is in the middle of changing the source again
C11_Witness ==
    /\ copy.made /\ copy.value = 1 /\ counter = 3
    /\ \E t \in Threads : op[t] \in Mutators /\ pc[t] # "idle"

(***************************************************************************)
(* The guarding lock of the FastMutex strategy                             *)
(***************************************************************************)
\* thread t is inside the guarded block of its operation: about to read
\* _counter.value, about to write it, or about to leave the block
InBlock(t) == pc[t] \in {"load", "store", "unlock"}

\* C12: in the lock-guarded strategy at most one thread is inside a guarded block,
\* and a thread that is about to read or write _counter.value (in value(), the
\* conversion, operator ! and the four increment/decrement forms) holds the mutex,
\* and holds it alone.
C12_LockHeldForEveryAccess ==
    strategy = "FastMutex" =>
        /\ Cardinality({t \in Threads : InBlock(t)}) <= 1
        /\ Cardinality(mutex) <= 1
        /\ \A t \in Threads : InBlock(t) => t \in mutex

C12_Witness ==
    /\ strategy = "FastMutex"
    /\ \E t, u \in Threads :
          /\ pc[t] = "load" /\ op[t] = "value" /\ mutex = {t}
          /\ pc[u] = "lock" /\ op[u] = "postinc"

\* C13: in the lock-guarded strategy a thread holds the mutex only inside the guarded
\* block of the one operation it is executing: a thread that is in no operation, or
\* that has not yet entered the block, does not hold it, and when no thread is in
\* an operation the mutex is free.
C13_LockNotHeldAcrossOperations ==
    strategy = "FastMutex" =>
        /\ \A t \in Threads : t \in mutex => InBlock(t)
        /\ AllReturned => mutex = {}

C13_Witness ==
    /\ strategy = "FastMutex" /\ AllReturned /\ mutex = {}
    /\ Len(hist) = MaxCalls /\ Overlapped

(***************************************************************************)
(* The native strategies never wait                                        *)
(***************************************************************************)
\* C14: under the native-atomic strategies a thread inside an operation can always
\* take its next step, whatever the other threads are doing, and the operation is at
\* most one plain read followed by one atomic read-modify-write: a step at the
\* read-modify-write returns, and a step at the read returns or leads to the
\* read-modify-write.
C14_NativeNeverWaits ==
    strategy \in Native =>
        \A t \in InCall :
            /\ pc[t] \in {"read", "atomic"}
            /\ ENABLED (NativeRead(t) \/ NativeAtomic(t))
            /\ ~ ENABLED ((NativeRead(t) \/ NativeAtomic(t)) /\ pc'[t] \notin {"atomic", "idle"})
            /\ pc[t] = "atomic" =>
                  ~ ENABLED ((NativeRead(t) \/ NativeAtomic(t)) /\ pc'[t] # "idle")

\* every thread is in the middle of a postfix operation, after its read
C14_Witness ==
    /\ strategy \in Native
    /\ \A t \in Threads : pc[t] = "atomic" /\ op[t] \in Postfix

CountOf(S) == Cardinality({i \in Done : hist[i].op \in S})

\* C16: for any mix of the four increment/decrement forms, whenever no call is in
\* progress the counter holds the initial value plus the number of completed
\* increments minus the number of completed decrements (in the counter's fixed-width
\* arithmetic), in every strategy.
C16_NoLostUpdate ==
    (AllReturned /\ \A i \in Done : hist[i].op \in Mutators)
        => counter = Wrap(initial + CountOf(Increments) - CountOf(Mutators \ Increments))

\* two overlapping native postfix increments that returned the same value: both
\* updates are there
C16_Witness ==
    /\ strategy \in Native /\ AllReturned /\ Len(hist) = 2 /\ Overlapped
    /\ hist[1].op = "postinc" /\ hist[2].op = "postinc"
    /\ hist[1].val = hist[2].val
    /\ counter = initial + 2

ReadOnly == {"conv", "value", "not"}

\* C17: value(), the conversion and operator ! never change the stored value: as long
\* as the only calls in progress are read-only ones the counter holds what the
\* completed increments and decrements made of it; in the lock-guarded strategy the
\* mutex is free again once they have returned; and value() and the conversion, called
\* with nothing else running, both return the stored value.
C17_ReadOnlyOperations ==
    /\ (\A t \in Threads : op[t] \in ReadOnly \cup {"none"})
          => counter = Wrap(initial + CountOf(Increments) - CountOf(Mutators \ Increments))
    /\ (AllReturned /\ \A i \in Done : hist[i].op \in ReadOnly)
          => (counter = initial /\ mutex = {})
    /\ (AllReturned /\ Len(hist) >= 1 /\ hist[Len(hist)].op \in {"conv", "value"}
            /\ hist[Len(hist)].start = Len(hist) - 1)
          => hist[Len(hist)].val = counter

\* value() and then the conversion, one after the other, returned the same value
C17_Witness ==
    /\ AllReturned /\ Len(hist) = 2 /\ hist[2].start = 1
    /\ hist[1].op = "value" /\ hist[2].op = "conv"
    /\ hist[1].val = hist[2].val /\ hist[2].val = counter
    /\ counter = initial /\ mutex = {}
====
